---- MODULE Spec2Model ----
(***************************************************************************)
(* Blog platform backend: accounts and session tokens (routes/auth.js),    *)
(* blog posts (routes/blogs.js, models/Blog.js), threaded comments         *)
(* (routes/comments.js, models/Comment.js) and the like toggle.            *)
(*                                                                         *)
(* The database is the state: the users, blogs and comments collections,   *)
(* each a function from the ids of the stored documents to the documents.  *)
(* Ids are handed out by counters and never reused (ObjectIds).  A handler *)
(* that awaits the database twice (find, then save/create) is two steps,   *)
(* with the request kept in a slot of req between them; every other        *)
(* handler is one step.  res is the HTTP response of the last handler that *)
(* answered: its status code and, for the account routes, the id of the    *)
(* user in the response body.                                              *)
(***************************************************************************)
EXTENDS Integers, Sequences, FiniteSets, TLC

VARIABLES users, nextUid, tokens, blogs, nextBlog, comments, nextComment, req, res

vars == <<users, nextUid, tokens, blogs, nextBlog, comments, nextComment, req, res>>

(***************************************************************************)
(* Bounds of the model.                                                    *)
(***************************************************************************)
\* accounts ever created in the account specification
MaxAccounts == 2
\* blogs / comments ever created in the comment-tree specification
MaxBlogs == 2
MaxComments == 2
\* documents (blogs and comments together) ever created in the ownership
\* specification
MaxOwnDocs == 2
\* requests in flight at the same time
MaxInflight == 2

\* the views a blog can reach
MaxViews == 3

Slots == 1..MaxInflight

(***************************************************************************)
(* Inputs.                                                                 *)
(***************************************************************************)
Emails == {"a@x", "b@x"}
Passwords == {"pw1", "pw2"}
Names == {"n1", "n2"}
Titles == {"t1", "t2"}
Contents == {"c1", "c2"}

\* parentComment: { default: null }
NoParent == 0

\* the response of a handler
Response(status, user) == [status |-> status, user |-> user]
NoResponse == Response(0, 0)
Idle == [pc |-> "idle"]

\* f without the key k (findByIdAndDelete)
Without(f, k) == [x \in DOMAIN f \ {k} |-> f[x]]
\* f with the new key k (Model.create)
With(f, k, v) == [x \in DOMAIN f \cup {k} |-> IF x = k THEN v ELSE f[x]]
\* the elements of a sequence
Range(s) == {s[i] : i \in DOMAIN s}

(***************************************************************************)
(* models/User.js and middleware/auth.js                                   *)
(***************************************************************************)
\* the pre-save hook stores a salted one-way hash, never the raw password
Hash(raw) == <<"bcrypt", raw>>

\* userSchema.methods.matchPassword
matchPassword(user, raw) == user.password = Hash(raw)

\* User.findOne({ email }): the ids of the stored users with that email
findByEmail(email) == {i \in DOMAIN users : users[i].email = email}

\* the unique index on email: User.create of a second account with a stored
\* email fails with a duplicate key error
duplicateKey(email) == findByEmail(email) # {}

\* protect: the bearer token must verify (one the server signed) and the user
\* it names must still be stored
protect(t) == t \in tokens /\ t \in DOMAIN users

\* a bearer token a request can present: 0 is a missing or forged one
Bearers == 0..MaxAccounts

(***************************************************************************)
(* routes/auth.js                                                          *)
(***************************************************************************)
\* POST /register, up to the answer of User.findOne
RegisterFind(r, name, email, password) ==
    /\ req[r] = Idle
    /\ IF findByEmail(email) # {}
       THEN /\ res' = Response(400, 0)
            /\ UNCHANGED req
       ELSE /\ req' = [req EXCEPT ![r] = [pc |-> "create", name |-> name,
                                          email |-> email, password |-> password]]
            /\ UNCHANGED res
    /\ UNCHANGED <<users, nextUid, tokens, blogs, nextBlog, comments, nextComment>>

\* a register handler that writes the account whether or not the email is taken
RegisterCreateUpsert(r) ==
    /\ req[r].pc = "create"
    /\ nextUid <= MaxAccounts
    /\ LET old == findByEmail(req[r].email)
           id == IF old = {} THEN nextUid ELSE CHOOSE i \in old : TRUE
           doc == [name |-> req[r].name, email |-> req[r].email,
                   password |-> Hash(req[r].password), role |-> "user"]
       IN /\ users' = With(users, id, doc)
          /\ nextUid' = IF old = {} THEN nextUid + 1 ELSE nextUid
          /\ tokens' = tokens \cup {id}
          /\ res' = Response(201, id)
    /\ req' = [req EXCEPT ![r] = Idle]
    /\ UNCHANGED <<blogs, nextBlog, comments, nextComment>>

\* POST /register, from User.create on: a duplicate key error is answered 400
RegisterCreate(r) ==
    /\ req[r].pc = "create"
    /\ nextUid <= MaxAccounts
    /\ IF duplicateKey(req[r].email)
       THEN /\ res' = Response(400, 0)
            /\ UNCHANGED <<users, nextUid, tokens>>
       ELSE /\ users' = With(users, nextUid,
                             [name |-> req[r].name, email |-> req[r].email,
                              password |-> Hash(req[r].password), role |-> "user"])
            /\ nextUid' = nextUid + 1
            /\ tokens' = tokens \cup {nextUid}
            /\ res' = Response(201, nextUid)
    /\ req' = [req EXCEPT ![r] = Idle]
    /\ UNCHANGED <<blogs, nextBlog, comments, nextComment>>

\* a credential check that forgets to compare the password
verifyNoMatch(us, email, password) ==
    LET found == {i \in DOMAIN us : us[i].email = email}
    IN IF found = {}
       THEN Response(401, 0)
       ELSE Response(200, CHOOSE i \in found : TRUE)

\* POST /login, the decision: User.findOne({ email }), then matchPassword
verify(us, email, password) ==
    LET found == {i \in DOMAIN us : us[i].email = email}
    IN IF found = {}
       THEN Response(401, 0)
       ELSE LET id == CHOOSE i \in found : TRUE
            IN IF ~matchPassword(us[id], password)
               THEN Response(401, 0)
               ELSE Response(200, id)

\* POST /login: a success signs a token for the user
Login(email, password) ==
    /\ res' = verify(users, email, password)
    /\ tokens' = IF res'.status = 200 THEN tokens \cup {res'.user} ELSE tokens
    /\ UNCHANGED <<users, nextUid, blogs, nextBlog, comments, nextComment, req>>

\* GET /me
GetMe(t) ==
    /\ res' = IF protect(t) THEN Response(200, t) ELSE Response(401, 0)
    /\ UNCHANGED <<users, nextUid, tokens, blogs, nextBlog, comments, nextComment, req>>

\* PUT /profile
UpdateProfile(t, name) ==
    /\ IF ~protect(t)
       THEN /\ res' = Response(401, 0)
            /\ UNCHANGED users
       ELSE /\ users' = [users EXCEPT ![t].name = name]
            /\ res' = Response(200, t)
    /\ UNCHANGED <<nextUid, tokens, blogs, nextBlog, comments, nextComment, req>>

\* a password change that does not check the current password
ChangePasswordUnchecked(t, currentPassword, newPassword) ==
    /\ IF ~protect(t)
       THEN /\ res' = Response(401, 0)
            /\ UNCHANGED users
       ELSE /\ users' = [users EXCEPT ![t].password = Hash(newPassword)]
            /\ res' = Response(200, 0)
    /\ UNCHANGED <<nextUid, tokens, blogs, nextBlog, comments, nextComment, req>>

\* PUT /password
ChangePassword(t, currentPassword, newPassword) ==
    /\ IF ~protect(t)
       THEN /\ res' = Response(401, 0)
            /\ UNCHANGED users
       ELSE IF ~matchPassword(users[t], currentPassword)
            THEN /\ res' = Response(400, 0)
                 /\ UNCHANGED users
            ELSE /\ users' = [users EXCEPT ![t].password = Hash(newPassword)]
                 /\ res' = Response(200, 0)
    /\ UNCHANGED <<nextUid, tokens, blogs, nextBlog, comments, nextComment, req>>

\* an account deletion that answers success and keeps the user stored
DeleteAccountKeep(t) ==
    /\ res' = IF protect(t) THEN Response(200, 0) ELSE Response(401, 0)
    /\ UNCHANGED <<users, nextUid, tokens, blogs, nextBlog, comments, nextComment, req>>

\* DELETE /account
DeleteAccount(t) ==
    /\ IF ~protect(t)
       THEN /\ res' = Response(401, 0)
            /\ UNCHANGED users
       ELSE /\ users' = Without(users, t)
            /\ res' = Response(200, 0)
    /\ UNCHANGED <<nextUid, tokens, blogs, nextBlog, comments, nextComment, req>>

\* scripts/seedAdmin.js
seedAdmin(name, email, password, reset) ==
    /\ LET found == findByEmail(email)
       IN IF found # {}
          THEN LET id == CHOOSE i \in found : TRUE
               IN /\ users' = IF users[id].role # "admin"
                              THEN [users EXCEPT ![id].role = "admin",
                                                 ![id].password =
                                                     IF reset THEN Hash(password) ELSE @]
                              ELSE users
                  /\ UNCHANGED nextUid
          ELSE /\ nextUid <= MaxAccounts
               /\ users' = With(users, nextUid,
                                [name |-> name, email |-> email,
                                 password |-> Hash(password), role |-> "admin"])
               /\ nextUid' = nextUid + 1
    /\ UNCHANGED <<tokens, blogs, nextBlog, comments, nextComment, req, res>>

InitAuth ==
    /\ users = <<>>
    /\ nextUid = 1
    /\ tokens = {}
    /\ blogs = <<>>
    /\ nextBlog = 1
    /\ comments = <<>>
    /\ nextComment = 1
    /\ req = [r \in Slots |-> Idle]
    /\ res = NoResponse

NextAuth ==
    \/ \E r \in Slots, e \in Emails, p \in Passwords : RegisterFind(r, "n1", e, p)
    \/ \E r \in Slots : RegisterCreate(r)
    \/ \E e \in Emails, p \in Passwords : Login(e, p)
    \/ \E t \in Bearers : GetMe(t)
    \/ \E t \in Bearers, p \in Passwords, q \in Passwords : ChangePassword(t, p, q)
    \/ \E t \in Bearers : DeleteAccount(t)
    \/ \E e \in Emails, p \in Passwords, b \in BOOLEAN : seedAdmin("n1", e, p, b)

SpecAuth == InitAuth /\ [][NextAuth]_vars

(***************************************************************************)
(* middleware/auth.js, models/Blog.js, models/Comment.js                   *)
(***************************************************************************)
\* authorize(role): the user's role meets the requirement; admin meets every one
authorize(role, t) == users[t].role = role \/ users[t].role = "admin"

\* checkOwnership(Model): the status it answers with, 200 standing for next()
checkOwnership(coll, id, t) ==
    IF id \notin DOMAIN coll THEN 404
    ELSE IF coll[id].author = t \/ users[t].role = "admin" THEN 200
    ELSE 403

\* a field of a request body, or the schema default when the body omits it
field(body, name, default) == IF name \in DOMAIN body THEN body[name] ELSE default

\* findByIdAndUpdate(id, req.body): every schema path the body carries is set
Merge(doc, body) == [f \in DOMAIN doc |-> IF f \in DOMAIN body THEN body[f] ELSE doc[f]]

\* new Blog(req.body) with the schema defaults
newBlog(t, body) ==
    [author |-> t, title |-> body.title, views |-> field(body, "views", 0),
     likes |-> field(body, "likes", <<>>),
     status |-> field(body, "status", "published"),
     isPublished |-> field(body, "isPublished", TRUE)]

\* new Comment(req.body) with the schema defaults
newComment(t, b, parent, body) ==
    [author |-> t, blog |-> b, content |-> body.content, parentComment |-> parent,
     isActive |-> field(body, "isActive", TRUE),
     isEdited |-> field(body, "isEdited", FALSE),
     likes |-> field(body, "likes", <<>>)]

(***************************************************************************)
(* routes/blogs.js                                                         *)
(***************************************************************************)
\* a create route registered without the protect middleware
CreateBlogOpen(t, body, max) ==
    /\ nextBlog <= max
    /\ blogs' = With(blogs, nextBlog, newBlog(t, body))
    /\ nextBlog' = nextBlog + 1
    /\ res' = Response(201, 0)
    /\ UNCHANGED <<users, nextUid, tokens, comments, nextComment, req>>

\* POST /blogs
CreateBlog(t, body, max) ==
    /\ nextBlog <= max
    /\ IF ~protect(t)
       THEN /\ res' = Response(401, 0)
            /\ UNCHANGED <<blogs, nextBlog>>
       ELSE /\ blogs' = With(blogs, nextBlog, newBlog(t, body))
            /\ nextBlog' = nextBlog + 1
            /\ res' = Response(201, 0)
    /\ UNCHANGED <<users, nextUid, tokens, comments, nextComment, req>>

\* PUT /blogs/:id
UpdateBlog(t, b, body) ==
    /\ IF ~protect(t)
       THEN /\ res' = Response(401, 0)
            /\ UNCHANGED blogs
       ELSE IF checkOwnership(blogs, b, t) # 200
            THEN /\ res' = Response(checkOwnership(blogs, b, t), 0)
                 /\ UNCHANGED blogs
            ELSE /\ blogs' = [blogs EXCEPT ![b] = Merge(@, body)]
                 /\ res' = Response(200, 0)
    /\ UNCHANGED <<users, nextUid, tokens, nextBlog, comments, nextComment, req>>

\* DELETE /blogs/:id
DeleteBlog(t, b) ==
    /\ IF ~protect(t)
       THEN /\ res' = Response(401, 0)
            /\ UNCHANGED blogs
       ELSE IF checkOwnership(blogs, b, t) # 200
            THEN /\ res' = Response(checkOwnership(blogs, b, t), 0)
                 /\ UNCHANGED blogs
            ELSE /\ blogs' = Without(blogs, b)
                 /\ res' = Response(200, 0)
    /\ UNCHANGED <<users, nextUid, tokens, nextBlog, comments, nextComment, req>>

(***************************************************************************)
(* routes/comments.js                                                      *)
(***************************************************************************)
\* a comment route that does not look the blog up before it creates
CreateCommentNoCheck(t, b, body, max) ==
    /\ nextComment <= max
    /\ IF ~protect(t)
       THEN /\ res' = Response(401, 0)
            /\ UNCHANGED <<comments, nextComment>>
       ELSE /\ comments' = With(comments, nextComment,
                                newComment(t, b, field(body, "parentComment", NoParent), body))
            /\ nextComment' = nextComment + 1
            /\ res' = Response(201, 0)
    /\ UNCHANGED <<users, nextUid, tokens, blogs, nextBlog, req>>

\* POST /comments/:blogId
CreateComment(t, b, body, max) ==
    /\ nextComment <= max
    /\ IF ~protect(t)
       THEN /\ res' = Response(401, 0)
            /\ UNCHANGED <<comments, nextComment>>
       ELSE IF b \notin DOMAIN blogs
            THEN /\ res' = Response(404, 0)
                 /\ UNCHANGED <<comments, nextComment>>
            ELSE /\ comments' = With(comments, nextComment,
                                     newComment(t, b, field(body, "parentComment", NoParent), body))
                 /\ nextComment' = nextComment + 1
                 /\ res' = Response(201, 0)
    /\ UNCHANGED <<users, nextUid, tokens, blogs, nextBlog, req>>

\* POST /comments/:commentId/reply
ReplyComment(t, c, body, max) ==
    /\ nextComment <= max
    /\ IF ~protect(t)
       THEN /\ res' = Response(401, 0)
            /\ UNCHANGED <<comments, nextComment>>
       ELSE IF c \notin DOMAIN comments
            THEN /\ res' = Response(404, 0)
                 /\ UNCHANGED <<comments, nextComment>>
            ELSE /\ comments' = With(comments, nextComment,
                                     newComment(t, comments[c].blog, c, body))
                 /\ nextComment' = nextComment + 1
                 /\ res' = Response(201, 0)
    /\ UNCHANGED <<users, nextUid, tokens, blogs, nextBlog, req>>

\* a comment update route registered without the checkOwnership middleware
UpdateCommentUnchecked(t, c, body) ==
    /\ IF ~protect(t)
       THEN /\ res' = Response(401, 0)
            /\ UNCHANGED comments
       ELSE IF c \notin DOMAIN comments
            THEN /\ res' = Response(404, 0)
                 /\ UNCHANGED comments
            ELSE /\ comments' = [comments EXCEPT ![c] = Merge(@, body)]
                 /\ res' = Response(200, 0)
    /\ UNCHANGED <<users, nextUid, tokens, blogs, nextBlog, nextComment, req>>

\* PUT /comments/:id
UpdateComment(t, c, body) ==
    /\ IF ~protect(t)
       THEN /\ res' = Response(401, 0)
            /\ UNCHANGED comments
       ELSE IF checkOwnership(comments, c, t) # 200
            THEN /\ res' = Response(checkOwnership(comments, c, t), 0)
                 /\ UNCHANGED comments
            ELSE /\ comments' = [comments EXCEPT ![c] = Merge(@, body)]
                 /\ res' = Response(200, 0)
    /\ UNCHANGED <<users, nextUid, tokens, blogs, nextBlog, nextComment, req>>

\* DELETE /comments/:id: a soft delete
DeleteComment(t, c) ==
    /\ IF ~protect(t)
       THEN /\ res' = Response(401, 0)
            /\ UNCHANGED comments
       ELSE IF checkOwnership(comments, c, t) # 200
            THEN /\ res' = Response(checkOwnership(comments, c, t), 0)
                 /\ UNCHANGED comments
            ELSE /\ comments' = [comments EXCEPT ![c].isActive = FALSE]
                 /\ res' = Response(200, 0)
    /\ UNCHANGED <<users, nextUid, tokens, blogs, nextBlog, nextComment, req>>

\* GET /comments/:blogId: data and total
listBlogComments(b) ==
    {c \in DOMAIN comments : /\ comments[c].blog = b
                             /\ comments[c].isActive
                             /\ comments[c].parentComment = NoParent}

\* GET /comments/:commentId/replies: data and total
listReplies(p) ==
    {c \in DOMAIN comments : comments[c].parentComment = p /\ comments[c].isActive}

\* GET /comments/user/:userId: data and total
listUserComments(u) ==
    {c \in DOMAIN comments : comments[c].author = u /\ comments[c].isActive}

\* GET /comments/admin/all: Comment.find() and Comment.countDocuments()
listAllComments == DOMAIN comments

\* blogSchema.virtual('commentCount'): the documents it counts, and the count
commentCountDocs(b) == {c \in DOMAIN comments : comments[c].blog = b}
commentCount(b) == Cardinality(commentCountDocs(b))

\* commentSchema.virtual('repliesCount'): the documents it counts, and the count
repliesCountDocs(p) == {c \in DOMAIN comments : comments[c].parentComment = p}
repliesCount(p) == Cardinality(repliesCountDocs(p))

\* the answer of a listing route: a status and, on success, the ids listed
Listing(status, data) ==
    IF status = 200 THEN [status |-> status, user |-> 0, data |-> data]
    ELSE Response(status, 0)

\* GET /blogs/admin/all
AdminAllBlogs(t) ==
    /\ res' = IF ~protect(t) THEN Listing(401, {})
              ELSE IF ~authorize("admin", t) THEN Listing(403, {})
              ELSE Listing(200, DOMAIN blogs)
    /\ UNCHANGED <<users, nextUid, tokens, blogs, nextBlog, comments, nextComment, req>>

\* an admin listing registered without authorize('admin')
AdminAllCommentsOpen(t) ==
    /\ res' = IF ~protect(t) THEN Listing(401, {})
              ELSE Listing(200, listAllComments)
    /\ UNCHANGED <<users, nextUid, tokens, blogs, nextBlog, comments, nextComment, req>>

\* GET /comments/admin/all
AdminAllComments(t) ==
    /\ res' = IF ~protect(t) THEN Listing(401, {})
              ELSE IF ~authorize("admin", t) THEN Listing(403, {})
              ELSE Listing(200, listAllComments)
    /\ UNCHANGED <<users, nextUid, tokens, blogs, nextBlog, comments, nextComment, req>>

(***************************************************************************)
(* The content specifications start from a database that holds two users   *)
(* and an admin (two registrations, a seedAdmin run and three logins).     *)
(***************************************************************************)
Members == {1, 2, 3}

InitContent ==
    /\ users = [i \in Members |->
                   [name |-> "n1",
                    email |-> IF i = 1 THEN "a@x" ELSE IF i = 2 THEN "b@x" ELSE "c@x",
                    password |-> Hash("pw1"),
                    role |-> IF i = 3 THEN "admin" ELSE "user"]]
    /\ nextUid = 4
    /\ tokens = Members
    /\ blogs = <<>>
    /\ nextBlog = 1
    /\ comments = <<>>
    /\ nextComment = 1
    /\ req = [r \in Slots |-> Idle]
    /\ res = NoResponse

\* the bearer tokens a content request presents: 0 is a missing or forged one
Callers == {0} \cup Members

(***************************************************************************)
(* The comment tree: request bodies and specification Spec                 *)
(***************************************************************************)
BlogBodies == {[title |-> x] : x \in Titles}

\* a body can name as parentComment the id of any comment stored so far
CommentBodies ==
    {[content |-> "c1"]}
        \cup {[content |-> "c1", parentComment |-> p] : p \in DOMAIN comments}
        \cup {[content |-> "c1", blog |-> b] : b \in 1..MaxBlogs}

Init == InitContent

Next ==
    \/ \E t \in Callers : CreateBlog(t, [title |-> "t1"], MaxBlogs)
    \/ \E t \in Callers, b \in 1..MaxBlogs : DeleteBlog(t, b)
    \/ \E t \in Callers, b \in 1..MaxBlogs, body \in CommentBodies :
          CreateComment(t, b, body, MaxComments)
    \/ \E t \in Callers, c \in 1..MaxComments, body \in CommentBodies :
          ReplyComment(t, c, body, MaxComments)
    \/ \E t \in Callers, c \in 1..MaxComments, body \in CommentBodies :
          UpdateComment(t, c, body)
    \/ \E t \in Callers, c \in 1..MaxComments : DeleteComment(t, c)

Spec == Init /\ [][Next]_vars

(***************************************************************************)
(* The comment tree: claims C2, C5, C6, C7 (specification Spec)            *)
(***************************************************************************)
\* C2: every stored comment whose parentComment is a stored comment X has the
\* blog of X, whatever post or parentComment values the request bodies carried.
C2_ReplySharesParentBlog ==
    \A c \in DOMAIN comments :
        (comments[c].parentComment # NoParent /\ comments[c].parentComment \in DOMAIN comments)
            => comments[c].blog = comments[comments[c].parentComment].blog

\* C5: a soft-deleted comment (isActive = FALSE) is in the result and in the
\* count of no comment query: the per-blog listing, the reply listing, the
\* per-user listing, the admin listing, commentCount and repliesCount.
C5_SoftDeletedNeverListed ==
    \A c \in DOMAIN comments :
        ~comments[c].isActive =>
            /\ \A b \in 1..MaxBlogs : c \notin listBlogComments(b)
            /\ \A p \in DOMAIN comments : c \notin listReplies(p)
            /\ \A u \in Members : c \notin listUserComments(u)
            /\ c \notin listAllComments
            /\ \A b \in 1..MaxBlogs : c \notin commentCountDocs(b)
            /\ \A p \in DOMAIN comments : c \notin repliesCountDocs(p)

\* C6: the repliesCount reported for a comment is the number of active
\* comments that have it as parentComment.
C6_RepliesCountIsActiveReplies ==
    \A c \in DOMAIN comments : repliesCount(c) = Cardinality(listReplies(c))

\* C7: the commentCount reported for a blog is the number of its active
\* top-level comments: 1 after a first comment, still 1 after a reply to it,
\* 0 after the comment is soft-deleted.
C7_CommentCountIsActiveTopLevel ==
    \A b \in DOMAIN blogs : commentCount(b) = Cardinality(listBlogComments(b))

(***************************************************************************)
(* Ownership: specification SpecOwn and claim C1                           *)
(***************************************************************************)
OwnBlogBodies == {[title |-> x] : x \in Titles}

OwnCommentBodies == {[content |-> x] : x \in Contents}

NextOwn ==
    \/ \E t \in Members : CreateBlog(t, [title |-> "t1"], MaxOwnDocs - (nextComment - 1))
    \/ \E t \in Members, b \in 1..MaxOwnDocs, body \in OwnBlogBodies : UpdateBlog(t, b, body)
    \/ \E t \in Members, b \in 1..MaxOwnDocs : DeleteBlog(t, b)
    \/ \E t \in Members, b \in 1..MaxOwnDocs :
          CreateComment(t, b, [content |-> "c1"], MaxOwnDocs - (nextBlog - 1))
    \/ \E t \in Members, c \in 1..MaxOwnDocs, body \in OwnCommentBodies :
          UpdateComment(t, c, body)
    \/ \E t \in Members, c \in 1..MaxOwnDocs : DeleteComment(t, c)

SpecOwn == InitContent /\ [][NextOwn]_vars

\* the principal is the resource's author or an admin
OwnerOrAdmin(coll, id, t) == coll[id].author = t \/ users[t].role = "admin"

\* C1: an update or delete request of an authenticated principal on a stored
\* blog or comment is answered 200 when the principal is the resource's author
\* or an admin, and is otherwise answered 403 and leaves the collection as it
\* was, for every principal, resource and body.
C1_OwnerOrAdminOnly ==
    [][/\ (comments' = comments /\ nextBlog' = nextBlog) =>
            \A t \in Members, b \in DOMAIN blogs :
                /\ \A body \in OwnBlogBodies :
                      UpdateBlog(t, b, body) =>
                          IF OwnerOrAdmin(blogs, b, t)
                          THEN res'.status = 200 /\ blogs'[b] = Merge(blogs[b], body)
                          ELSE res'.status = 403 /\ blogs' = blogs
                /\ DeleteBlog(t, b) =>
                      IF OwnerOrAdmin(blogs, b, t)
                      THEN res'.status = 200 /\ b \notin DOMAIN blogs'
                      ELSE res'.status = 403 /\ blogs' = blogs
       /\ (blogs' = blogs /\ nextComment' = nextComment) =>
            \A t \in Members, c \in DOMAIN comments :
                /\ \A body \in OwnCommentBodies :
                      UpdateComment(t, c, body) =>
                          IF OwnerOrAdmin(comments, c, t)
                          THEN res'.status = 200 /\ comments'[c] = Merge(comments[c], body)
                          ELSE res'.status = 403 /\ comments' = comments
                /\ DeleteComment(t, c) =>
                      IF OwnerOrAdmin(comments, c, t)
                      THEN res'.status = 200 /\ ~comments'[c].isActive
                      ELSE res'.status = 403 /\ comments' = comments]_vars

\* C1 witness: a request on a stored comment whose author is another user and
\* not the admin has just been refused with 403.
C1_Witness ==
    /\ res.status = 403
    /\ \E c \in DOMAIN comments : comments[c].author \in {1, 2} /\ comments[c].isActive
    /\ \E b \in DOMAIN blogs : blogs[b].title = "t2"

(***************************************************************************)
(* The like toggle: models/Blog.js, models/Comment.js, PUT /:id/like       *)
(*                                                                         *)
(* toggleLike runs in the tick in which findById answers: it looks the     *)
(* user up in the loaded likes array, pushes or splices, and calls save(), *)
(* which sends what changed.  The request then waits for that write, and   *)
(* the slot holds it.  A push is sent as a $push of the user id: it is     *)
(* applied to the stored array whatever it holds by then.  A splice is     *)
(* sent as a $set of the whole spliced array with the loaded document      *)
(* version in the filter: it is applied only if no save has changed the    *)
(* stored array since the load, so the array it writes is the stored one   *)
(* spliced; otherwise save() throws and the handler answers 500.  stale    *)
(* records that such a save has happened since the load.                   *)
(***************************************************************************)
\* Array.prototype.indexOf, 0-based, -1 when absent
indexOf(s, x) ==
    IF x \in Range(s)
    THEN (CHOOSE i \in DOMAIN s : s[i] = x /\ \A j \in DOMAIN s : s[j] = x => i <= j) - 1
    ELSE -1

\* this.likes.splice(likeIndex, 1)
splice(s, likeIndex) ==
    [i \in 1..(Len(s) - 1) |-> IF i <= likeIndex THEN s[i] ELSE s[i + 1]]

\* toggleLike, up to save(): the likes array of the document it ran on
toggleLike(likes, userId) ==
    IF indexOf(likes, userId) > -1
    THEN splice(likes, indexOf(likes, userId))
    ELSE Append(likes, userId)

\* the collection a like route works on
Collection(kind) == IF kind = "blog" THEN blogs ELSE comments

\* the write is applied: the stored document gets new likes, the request goes
\* on to answer 200, and the other writes waiting on the document are stale
Store(r, likes) ==
    /\ IF req[r].kind = "blog"
       THEN blogs' = [blogs EXCEPT ![req[r].id].likes = likes] /\ UNCHANGED comments
       ELSE comments' = [comments EXCEPT ![req[r].id].likes = likes] /\ UNCHANGED blogs
    /\ req' = [q \in Slots |->
                 IF q = r
                 THEN [req[r] EXCEPT !.pc = "respond", !.status = 200]
                 ELSE IF req[q].pc = "save" /\ req[q].kind = req[r].kind
                                            /\ req[q].id = req[r].id
                      THEN [req[q] EXCEPT !.stale = TRUE]
                      ELSE req[q]]

\* save() throws: nothing is stored and the request goes on to answer 500
Throw(r) ==
    /\ req' = [req EXCEPT ![r].pc = "respond", ![r].status = 500]
    /\ UNCHANGED <<blogs, comments>>

\* PUT /blogs/:id/like and PUT /comments/:id/like, up to the call of save()
LikeLoad(r, t, kind, id) ==
    /\ req[r] = Idle
    /\ IF ~protect(t)
       THEN /\ res' = Response(401, 0)
            /\ UNCHANGED req
       ELSE IF id \notin DOMAIN Collection(kind)
            THEN /\ res' = Response(404, 0)
                 /\ UNCHANGED req
            ELSE /\ req' = [req EXCEPT ![r] =
                              [pc |-> "save", kind |-> kind, id |-> id, user |-> t,
                               op |-> IF indexOf(Collection(kind)[id].likes, t) > -1
                                      THEN "$set" ELSE "$push",
                               empty |-> Collection(kind)[id].likes = <<>>,
                               stale |-> FALSE, status |-> 0]]
                 /\ UNCHANGED res
    /\ UNCHANGED <<users, nextUid, tokens, blogs, nextBlog, comments, nextComment>>

\* a schema with optimisticConcurrency: every save checks the document version
LikeSaveVersioned(r) ==
    /\ req[r].pc = "save"
    /\ IF req[r].id \notin DOMAIN Collection(req[r].kind) \/ req[r].stale
       THEN Throw(r)
       ELSE Store(r, toggleLike(Collection(req[r].kind)[req[r].id].likes, req[r].user))
    /\ UNCHANGED <<users, nextUid, tokens, nextBlog, nextComment, res>>

\* save(), as the database applies it
LikeSave(r) ==
    /\ req[r].pc = "save"
    /\ IF req[r].id \notin DOMAIN Collection(req[r].kind)
       THEN Throw(r)
       ELSE IF req[r].op = "$push"
            THEN Store(r, Append(Collection(req[r].kind)[req[r].id].likes, req[r].user))
            ELSE IF req[r].stale
                 THEN Throw(r)
                 ELSE Store(r, toggleLike(Collection(req[r].kind)[req[r].id].likes,
                                          req[r].user))
    /\ UNCHANGED <<users, nextUid, tokens, nextBlog, nextComment, res>>

\* res.json({ success: true, ..., data: blog }), or the error handler's answer
LikeRespond(r) ==
    /\ req[r].pc = "respond"
    /\ res' = Response(req[r].status, 0)
    /\ req' = [req EXCEPT ![r] = Idle]
    /\ UNCHANGED <<users, nextUid, tokens, blogs, nextBlog, comments, nextComment>>

\* the like specification starts with one likeable document nobody has liked:
\* a blog of user 1 that has no comment yet, or a comment of user 2 whose blog
\* has been deleted since
InitLike ==
    /\ InitContent!1
    /\ InitContent!2
    /\ InitContent!3
    /\ nextBlog = 2
    /\ \/ /\ blogs = <<newBlog(1, [title |-> "t1"])>>
          /\ comments = <<>>
          /\ nextComment = 1
       \/ /\ blogs = <<>>
          /\ comments = <<newComment(2, 1, NoParent, [content |-> "c1"])>>
          /\ nextComment = 2
    /\ req = [r \in Slots |-> Idle]
    /\ res = NoResponse

\* the users who toggle likes
Likers == {1, 2}

NextLike ==
    \/ \E r \in Slots, t \in Likers, kind \in {"blog", "comment"} :
          LikeLoad(r, t, kind, 1)
    \/ \E r \in Slots : LikeSave(r)
    \/ \E r \in Slots : LikeRespond(r)

SpecLike == InitLike /\ [][NextLike]_vars

(***************************************************************************)
(* Likes: claims C3, C4 (specification SpecLike)                           *)
(***************************************************************************)
\* the stored likes of the document a like request works on
LikesOf(r) == Collection(req[r].kind)[req[r].id].likes

\* the requests r and q are two users' likes of one document that both loaded
\* it with no likes, and q's save has been applied before r's
RacingLikes(r, q) ==
    /\ q # r
    /\ req[q].pc = "respond" /\ req[q].status = 200
    /\ req[q].kind = req[r].kind /\ req[q].id = req[r].id
    /\ req[q].op = "$push" /\ req[q].empty
    /\ req[r].op = "$push" /\ req[r].empty /\ req[r].stale
    /\ req[q].user # req[r].user

\* C3: a like is saved on top of whatever is stored by then, never over it:
\* the save of a user who had not liked the document succeeds, keeps every
\* stored like and adds the user; when two users' likes of a document without
\* likes race, the like set after the second save has exactly the two users.
C3_ConcurrentLikesBothLand ==
    [][\A r \in Slots :
          (req[r].pc = "save" /\ req[r].op = "$push" /\ LikeSave(r)) =>
              /\ req'[r].status = 200
              /\ Range(LikesOf(r)') = Range(LikesOf(r)) \cup {req[r].user}
              /\ \A q \in Slots :
                    (RacingLikes(r, q) /\ LikesOf(r) = <<req[q].user>>) =>
                        /\ Cardinality(Range(LikesOf(r)')) = 2
                        /\ Range(LikesOf(r)') = {req[q].user, req[r].user}]_vars

\* two racing likes of a document without likes have both been saved, and
\* neither has been answered yet
C3_Witness ==
    \E r, q \in Slots :
        /\ req[r].pc = "respond" /\ req[r].status = 200
        /\ RacingLikes(r, q)
        /\ LikesOf(r) = <<req[q].user, req[r].user>>

\* C4: on every stored like set and for every user, toggleLike twice gives
\* back the like set, and the first call adds the user iff absent and removes
\* the user iff present.
C4_ToggleLikeInvolution ==
    \A kind \in {"blog", "comment"} :
        \A id \in DOMAIN Collection(kind) :
            \A u \in Likers :
                LET likes == Collection(kind)[id].likes
                    once  == toggleLike(likes, u)
                    twice == toggleLike(once, u)
                IN /\ Range(twice) = Range(likes)
                   /\ u \in Range(once) <=> u \notin Range(likes)

\* C21: the stored likes of a blog or comment hold no user id more than once.
C21_LikesHoldNoDuplicate ==
    \A kind \in {"blog", "comment"} :
        \A id \in DOMAIN Collection(kind) :
            \A i, j \in DOMAIN Collection(kind)[id].likes :
                Collection(kind)[id].likes[i] = Collection(kind)[id].likes[j] => i = j

(***************************************************************************)
(* likeCount: specification SpecLikeCount and claim C17                    *)
(***************************************************************************)
\* blogSchema.virtual('likeCount') and commentSchema.virtual('likeCount'): the
\* number of stored users whose _id is in likes
likeCount(likes) == Cardinality({u \in DOMAIN users : u \in Range(likes)})

\* like toggles, and account deletions of the users who like
NextLikeCount ==
    \/ NextLike
    \/ \E t \in Likers : DeleteAccount(t)

SpecLikeCount == InitLike /\ [][NextLikeCount]_vars

\* C17: the likeCount reported for a blog or comment is the number of members
\* of its likes set.
C17_LikeCountIsLikes ==
    \A kind \in {"blog", "comment"} :
        \A id \in DOMAIN Collection(kind) :
            likeCount(Collection(kind)[id].likes)
                = Cardinality(Range(Collection(kind)[id].likes))

(***************************************************************************)
(* Accounts: claims C8, C9, C10 (specification SpecAuth)                   *)
(***************************************************************************)
UniqueEmail == \A i, j \in DOMAIN users : users[i].email = users[j].email => i = j

RegisterRefusesDuplicate ==
    /\ \A e \in Emails :
          findByEmail(e) # {} =>
              \A r \in Slots :
                  req[r] = Idle =>
                      \A n \in Names, p \in Passwords :
                          RegisterFind(r, n, e, p) => (res'.status = 400 /\ users' = users)
    /\ \A r \in Slots :
          (req[r].pc = "create" /\ findByEmail(req[r].email) # {} /\ RegisterCreate(r))
              => (res'.status = 400 /\ users' = users)

\* C8: at most one account exists per email in every reachable state, and a
\* register request for an email that already has an account, whether the account
\* was there at the findOne check or appeared between the check and the create,
\* is answered 400 and leaves the stored accounts unchanged.
C8_OneAccountPerEmail ==
    UniqueEmail /\ [][UniqueEmail' /\ RegisterRefusesDuplicate]_vars

\* C8 witness: a register request that passed the findOne check is still in
\* flight while a concurrent request has just created the account for its email.
C8_Witness ==
    \E r \in Slots :
        /\ req[r].pc = "create"
        /\ findByEmail(req[r].email) # {}
        /\ res.status = 201

\* C9: a successful register(name, email, password) leaves an account that a
\* login with the same email and password verifies, returning the id the
\* registration returned; a login with another password, or with an email that
\* has no account, is answered 401.
C9_RegisterThenLogin ==
    [][\A r \in Slots :
          (req[r].pc = "create" /\ RegisterCreate(r) /\ res'.status = 201)
              => /\ verify(users', req[r].email, req[r].password) = Response(200, res'.user)
                 /\ \A q \in Passwords \ {req[r].password} :
                        verify(users', req[r].email, q) = Response(401, 0)
                 /\ \A e \in Emails, q \in Passwords :
                        (\A i \in DOMAIN users' : users'[i].email # e)
                            => verify(users', e, q) = Response(401, 0)]_vars

\* C9 witness: a registration has just succeeded, another email is still
\* unregistered, and the new account verifies under exactly one password.
C9_Witness ==
    /\ res.status = 201
    /\ res.user \in DOMAIN users
    /\ \E e \in Emails : findByEmail(e) = {}
    /\ \E p \in Passwords :
          /\ verify(users, users[res.user].email, p) = Response(200, res.user)
          /\ \A q \in Passwords \ {p} :
                verify(users, users[res.user].email, q) = Response(401, 0)

\* a token that was issued to a user who is no longer stored
Deleted(t) == t \in tokens /\ t \notin DOMAIN users

\* C10: once DELETE /account has succeeded for a user, the tokens issued to
\* that user never authenticate again, and every protected request presenting
\* one is answered 401 and changes nothing.
C10_DeletedUserToken ==
    [][\A t \in Bearers :
          /\ (t \in tokens /\ DeleteAccount(t) /\ res'.status = 200) => Deleted(t)'
          /\ Deleted(t) => Deleted(t)'
          /\ (/\ Deleted(t)
              /\ \/ GetMe(t)
                 \/ \E n \in Names : UpdateProfile(t, n)
                 \/ \E p \in Passwords, q \in Passwords : ChangePassword(t, p, q)
                 \/ DeleteAccount(t))
                => (res' = Response(401, 0) /\ users' = users /\ tokens' = tokens)]_vars

\* C10 witness: a token of a deleted user exists, the email has been registered
\* again, and the last request was refused as unauthenticated.
C10_Witness ==
    /\ \E t \in Bearers : Deleted(t)
    /\ DOMAIN users # {}
    /\ res = Response(401, 0)

\* the passwords that log the account with that email in
LogsIn(us, email) == {p \in Passwords : verify(us, email, p).status = 200}

\* C15: a password change of an authenticated user whose currentPassword does
\* not match the stored one is answered with the error (400) and leaves the
\* stored accounts, and so the passwords that log in, as they were; one whose
\* currentPassword matches is answered 200, and afterwards the new password
\* and no other logs the user in.
C15_ChangePassword ==
    [][(nextUid' = nextUid /\ tokens' = tokens /\ req' = req) =>
          \A t \in Bearers :
              protect(t) =>
                  \A cur \in Passwords, new \in Passwords :
                      ChangePassword(t, cur, new) =>
                          IF matchPassword(users[t], cur)
                          THEN /\ res'.status = 200
                               /\ LogsIn(users', users[t].email) = {new}
                               /\ verify(users', users[t].email, new).user = t
                          ELSE /\ res'.status = 400
                               /\ users' = users
                               /\ LogsIn(users', users[t].email) = LogsIn(users, users[t].email)
                               /\ cur \notin LogsIn(users', users[t].email)]_vars

\* C15 witness: no account has been deleted, the last request was a password
\* change that succeeded, and an account is logged in by "pw2" only.
C15_Witness ==
    /\ res = Response(200, 0)
    /\ tokens \subseteq DOMAIN users
    /\ \E u \in DOMAIN users : LogsIn(users, users[u].email) = {"pw2"}

(***************************************************************************)
(* Stored fields and request bodies: specification SpecFields and claims   *)
(* C11, C13, C14                                                           *)
(***************************************************************************)
\* update bodies that carry, next to the validated title, an author
FieldBlogBodies ==
    {[title |-> "t2"]} \cup {[title |-> "t2", author |-> u] : u \in Members}

\* bodies of the comment routes that carry, next to the validated content, an
\* author or an isEdited flag
FieldCommentBodies ==
    {[content |-> "c2"]}
        \cup {[content |-> "c2", author |-> u] : u \in Members}
        \cup {[content |-> "c2", isEdited |-> e] : e \in BOOLEAN}

NextFields ==
    \/ \E t \in Members : CreateBlog(t, [title |-> "t1"], MaxOwnDocs - (nextComment - 1))
    \/ \E t \in Members, b \in 1..MaxOwnDocs, body \in FieldBlogBodies : UpdateBlog(t, b, body)
    \/ \E t \in Members, b \in 1..MaxOwnDocs : DeleteBlog(t, b)
    \/ \E t \in Members, b \in 1..MaxOwnDocs, e \in BOOLEAN :
          CreateComment(t, b, IF e THEN [content |-> "c1", isEdited |-> TRUE]
                                   ELSE [content |-> "c1"],
                        MaxOwnDocs - (nextBlog - 1))
    \/ \E t \in Members, c \in 1..MaxOwnDocs, body \in FieldCommentBodies :
          UpdateComment(t, c, body)
    \/ \E t \in Members, c \in 1..MaxOwnDocs : DeleteComment(t, c)

SpecFields == InitContent /\ [][NextFields]_vars

\* C11: a blog or comment is created with the authenticated principal as its
\* author, and every blog and comment that stays stored keeps its author,
\* whatever the request and its body.
C11_AuthorNeverChanges ==
    [][/\ \A b \in DOMAIN blogs' :
             IF b \in DOMAIN blogs
             THEN blogs'[b].author = blogs[b].author
             ELSE \E t \in Members : CreateBlog(t, [title |-> "t1"], MaxOwnDocs)
                                        /\ blogs'[b].author = t
       /\ \A c \in DOMAIN comments' :
             c \in DOMAIN comments => comments'[c].author = comments[c].author]_vars

\* C13: an update of a stored comment that is answered 200 and changes its
\* content leaves the comment with isEdited = TRUE; a comment created from a
\* body that carries only content has isEdited = FALSE.
C13_EditSetsIsEdited ==
    [][\A c \in DOMAIN comments' :
          IF c \in DOMAIN comments
          THEN comments'[c].content # comments[c].content => comments'[c].isEdited
          ELSE (\E t \in Members, b \in DOMAIN blogs :
                    CreateComment(t, b, [content |-> "c1"], MaxOwnDocs))
                  => ~comments'[c].isEdited]_vars

\* C14: a stored comment that has isEdited = TRUE has it in every later state.
C14_IsEditedOneWay ==
    [][\A c \in DOMAIN comments :
          (comments[c].isEdited /\ c \in DOMAIN comments') => comments'[c].isEdited]_vars

(***************************************************************************)
(* The view counter: GET /blogs/:id and incrementViews (models/Blog.js),   *)
(* specification SpecView and claims C12, C20                              *)
(*                                                                         *)
(* incrementViews runs in the tick in which findById answers: it adds one  *)
(* to the loaded views and calls save(), which sends the new number as a   *)
(* $set of views.  The request then waits for that write, and the slot     *)
(* holds the number it sets.  stale records that another fetch has saved   *)
(* views since the load.                                                   *)
(***************************************************************************)
\* GET /blogs/:id, up to the call of save(); any caller, no protect
ViewLoad(r, t, id) ==
    /\ req[r] = Idle
    /\ IF id \notin DOMAIN blogs
       THEN /\ res' = Response(404, 0)
            /\ UNCHANGED req
       ELSE /\ blogs[id].views < MaxViews
            /\ req' = [req EXCEPT ![r] =
                         [pc |-> "views", id |-> id, views |-> blogs[id].views + 1,
                          stale |-> FALSE, status |-> 0]]
            /\ UNCHANGED res
    /\ UNCHANGED <<users, nextUid, tokens, blogs, nextBlog, comments, nextComment>>

\* a fetch that answers without waiting for, or sending, the save
ViewSaveDropped(r) ==
    /\ req[r].pc = "views"
    /\ req' = [req EXCEPT ![r].pc = "viewed", ![r].status = 200]
    /\ UNCHANGED <<users, nextUid, tokens, blogs, nextBlog, comments, nextComment, res>>

\* save() of incrementViews, as the database applies it
ViewSave(r) ==
    /\ req[r].pc = "views"
    /\ IF req[r].id \notin DOMAIN blogs
       THEN /\ req' = [req EXCEPT ![r].pc = "viewed", ![r].status = 500]
            /\ UNCHANGED blogs
       ELSE /\ blogs' = [blogs EXCEPT ![req[r].id].views = req[r].views]
            /\ req' = [q \in Slots |->
                         IF q = r
                         THEN [req[r] EXCEPT !.pc = "viewed", !.status = 200]
                         ELSE IF req[q].pc = "views" /\ req[q].id = req[r].id
                              THEN [req[q] EXCEPT !.stale = TRUE]
                              ELSE req[q]]
    /\ UNCHANGED <<users, nextUid, tokens, nextBlog, comments, nextComment, res>>

\* res.json({ success: true, data: blog }), or the error handler's answer
ViewRespond(r) ==
    /\ req[r].pc = "viewed"
    /\ res' = Response(req[r].status, 0)
    /\ req' = [req EXCEPT ![r] = Idle]
    /\ UNCHANGED <<users, nextUid, tokens, blogs, nextBlog, comments, nextComment>>

\* the view specification starts with one blog of user 1 that nobody has read
InitView ==
    /\ InitContent!1
    /\ InitContent!2
    /\ InitContent!3
    /\ blogs = <<newBlog(1, [title |-> "t1"])>>
    /\ nextBlog = 2
    /\ comments = <<>>
    /\ nextComment = 1
    /\ req = [r \in Slots |-> Idle]
    /\ res = NoResponse

NextView ==
    \/ \E r \in Slots, t \in Callers, id \in 1..2 : ViewLoad(r, t, id)
    \/ \E r \in Slots : ViewSave(r)
    \/ \E r \in Slots : ViewRespond(r)
    \/ \E t \in Members, body \in BlogBodies : UpdateBlog(t, 1, body)

SpecView == InitView /\ [][NextView]_vars

\* C12: the save of a fetch of a stored blog, with no other fetch of the blog
\* saved since its load, is answered 200 and adds exactly one to the stored
\* views, whoever the caller is; a fetch of a blog that is not stored is
\* answered 404 and leaves every blog as it was.  (n such fetches one after
\* the other so add n.)
C12_FetchAddsOneView ==
    [][/\ \A r \in Slots :
             (req[r].pc = "views" /\ ~req[r].stale /\ ViewSave(r)) =>
                 /\ req'[r].status = 200
                 /\ blogs'[req[r].id].views = blogs[req[r].id].views + 1
                 /\ \A b \in DOMAIN blogs \ {req[r].id} : blogs'[b] = blogs[b]
       /\ \A r \in Slots, t \in Callers, id \in 1..2 :
             (req[r] = Idle /\ ViewLoad(r, t, id)) =>
                 IF id \in DOMAIN blogs
                 THEN req'[r].views = blogs[id].views + 1 /\ blogs' = blogs
                 ELSE res'.status = 404 /\ blogs' = blogs /\ req' = req]_vars

\* a second fetch in a row has been saved and not yet answered, and a fetch
\* of a blog that is not stored has been answered 404
C12_Witness ==
    /\ res.status = 404
    /\ \E r \in Slots :
          /\ req[r].pc = "viewed" /\ req[r].status = 200 /\ ~req[r].stale
          /\ req[r].views = 2 /\ blogs[req[r].id].views = 2
          /\ \A q \in Slots \ {r} : req[q] = Idle

\* C20: the stored views of a blog never decrease.
C20_ViewsNeverDecrease ==
    [][\A b \in DOMAIN blogs :
          b \in DOMAIN blogs' => blogs'[b].views >= blogs[b].views]_vars

(***************************************************************************)
(* Guards: specification SpecGuard and claims C16, C18, C19                *)
(***************************************************************************)
\* the callers of the guarded routes: a missing or forged token (0), a user
\* and the admin; the user's account can be deleted
GuardCallers == {0, 1, 3}

\* every route that writes, and the admin listings
NextGuard ==
    \/ \E t \in {0, 1} :
          CreateBlog(t, [title |-> "t1"], MaxOwnDocs - (nextComment - 1))
    \/ \E t \in GuardCallers, b \in 1..MaxOwnDocs : UpdateBlog(t, b, [title |-> "t1"])
    \/ \E t \in GuardCallers, b \in 1..MaxOwnDocs : DeleteBlog(t, b)
    \/ \E t \in {0, 3}, b \in 1..MaxOwnDocs :
          CreateComment(t, b, [content |-> "c1"], MaxOwnDocs - (nextBlog - 1))
    \/ \E t \in {0, 3}, c \in 1..MaxOwnDocs :
          ReplyComment(t, c, [content |-> "c1"], MaxOwnDocs - (nextBlog - 1))
    \/ \E t \in GuardCallers, c \in 1..MaxOwnDocs : UpdateComment(t, c, [content |-> "c1"])
    \/ \E t \in GuardCallers, c \in 1..MaxOwnDocs : DeleteComment(t, c)
    \/ \E t \in {0, 1}, kind \in {"blog", "comment"} : LikeLoad(1, t, kind, 1)
    \/ LikeSave(1)
    \/ LikeRespond(1)
    \/ \E t \in {0, 1} : UpdateProfile(t, "n2")
    \/ \E t \in {0, 1} : ChangePassword(t, "pw1", "pw2")
    \/ \E t \in {0, 1} : DeleteAccount(t)
    \/ \E t \in GuardCallers : AdminAllBlogs(t)
    \/ \E t \in GuardCallers : AdminAllComments(t)

SpecGuard == InitContent /\ [][NextGuard]_vars

\* C16: a comment request of an authenticated caller on a blog that is not
\* stored, and a reply request on a comment that is not stored, are answered
\* 404 and leave the stored comments as they were.
C16_MissingTargetPersistsNothing ==
    [][\A t \in GuardCallers :
          protect(t) =>
              /\ \A b \in 1..MaxOwnDocs :
                    (b \notin DOMAIN blogs
                        /\ CreateComment(t, b, [content |-> "c1"], MaxOwnDocs))
                        => (res'.status = 404 /\ comments' = comments)
              /\ \A c \in 1..MaxOwnDocs :
                    (c \notin DOMAIN comments
                        /\ ReplyComment(t, c, [content |-> "c1"], MaxOwnDocs))
                        => (res'.status = 404 /\ comments' = comments)]_vars

\* C16 witness: a request has just been answered 404 while a blog is stored,
\* another id names no blog, no comment is stored and one can still be created
C16_Witness ==
    /\ res.status = 404
    /\ nextComment <= MaxOwnDocs - (nextBlog - 1)
    /\ comments = <<>>
    /\ 1 \in DOMAIN blogs
    /\ 2 \notin DOMAIN blogs

\* the answer of an admin listing to caller t, when the listing holds data
AdminOnly(t, data) ==
    IF protect(t) /\ users[t].role = "admin"
    THEN res' = Listing(200, data)
    ELSE /\ "data" \notin DOMAIN res'
         /\ protect(t) => res'.status = 403

\* C18: the admin listings of blogs and of comments answer with data to an
\* authenticated admin only; an authenticated user of role user is answered
\* 403, and the admin gets the listing.
C18_AdminListingsAdminOnly ==
    [][\A t \in GuardCallers :
          /\ AdminAllBlogs(t) => AdminOnly(t, DOMAIN blogs)
          /\ AdminAllComments(t) => AdminOnly(t, DOMAIN comments)]_vars

\* C18 witness: the admin has just been given a listing that holds documents
C18_Witness ==
    /\ "data" \in DOMAIN res
    /\ res.data # {}
    /\ 1 \in DOMAIN users

\* the request was answered 401 and no write was made or started
Refused ==
    /\ res' = Response(401, 0)
    /\ UNCHANGED <<users, blogs, comments, req>>

\* C19: every request to a route that creates, updates, deletes or likes a
\* blog or comment, or changes a profile, a password or an account, made with
\* a token that does not authenticate is answered 401 and leaves users, blogs
\* and comments unchanged.
C19_WritesNeedAuthentication ==
    [][Refused \/
          \A t \in GuardCallers :
              ~protect(t) =>
                  /\ ~CreateBlog(t, [title |-> "t1"], MaxOwnDocs)
                  /\ ~CreateComment(t, 1, [content |-> "c1"], MaxOwnDocs)
                  /\ ~ReplyComment(t, 1, [content |-> "c1"], MaxOwnDocs)
                  /\ ~UpdateProfile(t, "n2")
                  /\ ~ChangePassword(t, "pw1", "pw2")
                  /\ ~DeleteAccount(t)
                  /\ \A id \in 1..MaxOwnDocs :
                        /\ ~UpdateBlog(t, id, [title |-> "t1"])
                        /\ ~DeleteBlog(t, id)
                        /\ ~UpdateComment(t, id, [content |-> "c1"])
                        /\ ~DeleteComment(t, id)
                  /\ \A kind \in {"blog", "comment"} : ~LikeLoad(1, t, kind, 1)]_vars

\* C19 witness: the account of user 1 has been deleted while blogs and
\* comments are stored, and a request has just been answered 401
C19_Witness ==
    /\ res = Response(401, 0)
    /\ 1 \notin DOMAIN users
    /\ blogs # <<>>
    /\ comments # <<>>

(***************************************************************************)
(* Drafts: the read routes of routes/blogs.js, specification SpecPublish   *)
(* and claim C22                                                           *)
(***************************************************************************)
\* the filter { status: 'published', isPublished: true }
Published(doc) == doc.status = "published" /\ doc.isPublished

\* GET /blogs, with or without ?author= (0 stands for no author filter)
GetBlogs(author) ==
    /\ res' = Listing(200, {b \in DOMAIN blogs :
                               /\ Published(blogs[b])
                               /\ author # 0 => blogs[b].author = author})
    /\ UNCHANGED <<users, nextUid, tokens, blogs, nextBlog, comments, nextComment, req>>

\* GET /blogs/user/:userId
GetUserBlogs(userId) ==
    /\ res' = Listing(200, {b \in DOMAIN blogs :
                               blogs[b].author = userId /\ Published(blogs[b])})
    /\ UNCHANGED <<users, nextUid, tokens, blogs, nextBlog, comments, nextComment, req>>

\* GET /blogs/my/blogs
GetMyBlogs(t) ==
    /\ res' = IF ~protect(t) THEN Listing(401, {})
              ELSE Listing(200, {b \in DOMAIN blogs : blogs[b].author = t})
    /\ UNCHANGED <<users, nextUid, tokens, blogs, nextBlog, comments, nextComment, req>>

\* the bodies of POST /blogs and PUT /blogs/:id that set the publication fields
PublishBodies ==
    {[title |-> "t1"]}
        \cup {[title |-> "t1", status |-> x] : x \in {"draft", "published"}}
        \cup {[title |-> "t1", isPublished |-> p] : p \in BOOLEAN}

NextPublish ==
    \/ \E t \in {1, 2}, body \in PublishBodies : CreateBlog(t, body, MaxBlogs)
    \/ \E t \in {1, 2}, b \in 1..MaxBlogs, body \in PublishBodies : UpdateBlog(t, b, body)
    \/ \E a \in {0, 1, 2} : GetBlogs(a)
    \/ \E u \in {1, 2} : GetUserBlogs(u)
    \/ \E t \in Callers : GetMyBlogs(t)
    \/ \E t \in Callers, id \in 1..MaxBlogs : ViewLoad(1, t, id)
    \/ ViewSave(1)
    \/ ViewRespond(1)

SpecPublish == InitContent /\ [][NextPublish]_vars

\* C22: the public list and the per-user list hold published blogs only, and
\* a single-blog fetch of a stored blog that is not published is not served
\* (no view is counted and no blog is sent), whoever the caller is.
C22_DraftsNotPublic ==
    [][/\ \A a \in {0, 1, 2} :
             GetBlogs(a) => \A b \in res'.data : Published(blogs[b])
       /\ \A u \in {1, 2} :
             GetUserBlogs(u) => \A b \in res'.data : Published(blogs[b])
       /\ \A t \in Callers, id \in DOMAIN blogs :
             (~Published(blogs[id]) /\ ViewLoad(1, t, id)) => req'[1] = Idle]_vars

====
